---- MODULE Spec2Model ----
(***************************************************************************)
(* Model of the concurrent filtering pipeline of                           *)
(* src/filter_fhir_by_patients.py: SimpleBatchFilter and main().           *)
(*                                                                         *)
(* A text is a tuple of one-character strings, a file content is a tuple   *)
(* of lines, a file name is a tuple of name parts ("A", ".ndjson", ".gz"). *)
(* The two directories (the FHIR source directory and the temporary        *)
(* directory) are functions from names to files.                           *)
(***************************************************************************)
EXTENDS Integers, Sequences, FiniteSets, TLC

\* ------------------------------------------------------------------ bounds

\* Largest value of the --threads argument that is explored (0: not given).
MaxThreads == 2
\* Largest value of multiprocessing.cpu_count() that is explored.
MaxCpu == 3
\* Directories of up to this many source files are scanned in every order.
MaxPermuted == 3
\* Largest number of lines of an identifier list file that is explored.
MaxListLines == 3
\* Largest max_wait_time given to wait_for_completion, in seconds.
MaxWaitTime == 4
\* Longest time a call of check_job_status takes, in seconds.
MaxPollTime == 2
\* Longest request path given to do_GET, in characters.
MaxPathLen == 5
\* Largest number of words of the free file names given to
\* map_filename_to_resource_type.
MaxNameWords == 2

\* ------------------------------------------------------------ texts, lines

Txt(a, b, c, d) == <<a, b, c, d>>

P001 == Txt("P", "0", "0", "1")
P002 == Txt("P", "0", "0", "2")
P777 == Txt("P", "7", "7", "7")

\* The record line {"subject":"<id>"}, shortened to {<id>}.
Rec(id) == <<"{">> \o id \o <<"}">>

L001 == Rec(P001)
L002 == Rec(P002)
L999 == Rec(Txt("P", "9", "9", "9"))
\* Same identifier as P001 in lower case: must not match.
Lp001 == Rec(Txt("p", "0", "0", "1"))

\* ------------------------------------------------------------------ files

NoData == <<>>
Absent == [exists |-> FALSE, data |-> NoData]
File(lines) == [exists |-> TRUE, data |-> lines]

\* Path.name of the source files, as name parts.
NameA    == <<"A", ".ndjson", ".gz">>
NameB    == <<"B", ".ndjson", ".gz">>
NameC    == <<"C", ".ndjson", ".gz">>
NameD    == <<"D", ".ndjson", ".gz">>
NameE    == <<"E", ".ndjson", ".gz">>
NameF    == <<"F", ".ndjson", ".gz">>
NameG    == <<"G", ".ndjson", ".gz">>
\* A name with an inner ".gz".
NameAgz  == <<"A", ".gz", ".ndjson", ".gz">>
\* Names the directory scan must not pick up.
NamePlain == <<"A", ".ndjson">>
NameNotes == <<"notes", ".txt">>

Names == {NameA, NameB, NameC, NameD, NameE, NameF, NameG, NameAgz, NamePlain,
          NameNotes}

\* A source directory: the files it holds (every other name is absent).
Dir(held) == [n \in Names |-> IF n \in DOMAIN held THEN File(held[n]) ELSE Absent]

ContentA == <<L001, L999, L002>>
ContentB == <<L999, Lp001>>
ContentC == <<L002>>

DirThree == Dir((NameA :> ContentA) @@ (NameB :> ContentB) @@ (NameC :> ContentC)
                @@ (NamePlain :> ContentA) @@ (NameNotes :> <<L001>>))
DirInnerGz == Dir((NameA :> ContentA) @@ (NameAgz :> ContentB))
DirFive == Dir((NameB :> ContentB) @@ (NameD :> <<L999>>) @@ (NameE :> <<L001, L001>>)
               @@ (NameF :> ContentA) @@ (NameG :> ContentC))
DirNoSource == Dir((NameNotes :> <<L001>>))
DirEmpty == Dir(<<>>)

\* The source directories explored.
Corpora == {DirThree, DirInnerGz, DirFive, DirNoSource, DirEmpty}

\* The identifier lists explored (the --patients arguments).
IdLists == {<<P001, P002>>, <<P002, P002>>, <<>>}

\* The lines an identifier list file is made of, as iterating over the open
\* file yields them: with their line end, which only a last line may lack.
EOL == <<"\n">>
ListLines == {P001 \o EOL,
              EOL,
              <<"#", " ", "c">> \o EOL,
              <<" ">> \o P001 \o <<" ", "\r">> \o EOL,
              <<" ", "#", "c">> \o EOL,
              P002}

\* The identifier list files explored.
ListFiles ==
    {f \in UNION {[1..n -> ListLines] : n \in 0..MaxListLines} :
        \A i \in 1..(Len(f) - 1) : f[i][Len(f[i])] = "\n"}

\* type_mapping of map_filename_to_resource_type, in the order of the dict;
\* a name is a tuple of words ("Mimic", "Medication", "Request") and parts
\* (".ndjson", ".gz").
TypeMapping == <<
    [pattern |-> <<"Mimic", "Patient">>, type |-> "Patient"],
    [pattern |-> <<"Mimic", "Condition">>, type |-> "Condition"],
    [pattern |-> <<"Mimic", "Encounter">>, type |-> "Encounter"],
    [pattern |-> <<"Mimic", "Location">>, type |-> "Location"],
    [pattern |-> <<"Mimic", "Organization">>, type |-> "Organization"],
    [pattern |-> <<"Mimic", "Medication">>, type |-> "Medication"],
    [pattern |-> <<"Mimic", "Medication", "Administration">>,
     type |-> "MedicationAdministration"],
    [pattern |-> <<"Mimic", "Medication", "Dispense">>, type |-> "MedicationDispense"],
    [pattern |-> <<"Mimic", "Medication", "Request">>, type |-> "MedicationRequest"],
    [pattern |-> <<"Mimic", "Medication", "Statement">>, type |-> "MedicationStatement"],
    [pattern |-> <<"Mimic", "Observation">>, type |-> "Observation"],
    [pattern |-> <<"Mimic", "Procedure">>, type |-> "Procedure"],
    [pattern |-> <<"Mimic", "Specimen">>, type |-> "Specimen"] >>

\* The words the file names given to map_filename_to_resource_type are
\* made of: those of the table and of the rules, and three that occur in
\* neither ("patient" differs from "Patient" by case only).
NameWords == {"Mimic", "Patient", "Condition", "Encounter", "Location",
              "Organization", "Medication", "Administration", "Dispense", "Request",
              "Statement", "Observation", "Procedure", "Specimen", "Lab", "patient"}

Extensions == {<<".ndjson">>, <<".ndjson", ".gz">>, <<>>}

\* The file names explored: every prefix of the table and every name of up
\* to MaxNameWords words, with each extension.
FileNames ==
    {b \o e : b \in {TypeMapping[i].pattern : i \in DOMAIN TypeMapping}
                     \cup UNION {[1..n -> NameWords] : n \in 0..MaxNameWords},
              e \in Extensions}

\* The values of the header Retry-After of a 202 answer: none, a number of
\* seconds in digits, or an HTTP date (the two forms the header has).
NoHeader == <<>>
RetryAfterValues == {NoHeader, <<"0">>, <<"2">>, <<"1", "0">>, <<"F", "r", "i">>}

\* What session.get of the status URL gives: an answer of the server, with
\* its status code, its header Retry-After and whether its body is JSON,
\* or an exception of requests.
Answer(code, retry_after, json) ==
    [raised |-> FALSE, code |-> code, retry_after |-> retry_after, json |-> json]
ConnectionError == [raised |-> TRUE]
StatusAnswers ==
    {Answer(200, NoHeader, TRUE), Answer(200, NoHeader, FALSE), Answer(500, NoHeader, TRUE),
     ConnectionError}
    \cup {Answer(202, h, TRUE) : h \in RetryAfterValues}

\* The characters of a request path: "/", ".", a letter, and the escapes of
\* "/" and "." (three characters each in the request, taken as one).
PathChars == {"/", ".", "a", "%2F", "%2E"}

\* The request paths explored.
RequestPaths == UNION {[1..n -> PathChars] : n \in 0..MaxPathLen}

\* The file system of the server: a node is the tuple of the names that
\* lead to it from the root. /app/fhir holds the file a; the files /a and
\* /app/a lie outside the directory served.
ServedDir == << <<"app">>, <<"fhir">> >>
Dirs == {<<>>, << <<"app">> >>, ServedDir}
Files == {<< <<"a">> >>, << <<"app">>, <<"a">> >>, Append(ServedDir, <<"a">>)}
Missing == << <<"?">> >>

\* --------------------------------------------------------- pure functions

\* What check_job_status returns.
NoStatus == [status |-> "none"]
Completed == [status |-> "completed"]
InProgress(n) == [status |-> "in-progress", retry_after |-> n]
Error == [status |-> "error"]

DigitChars == <<"0", "1", "2", "3", "4", "5", "6", "7", "8", "9">>
DigitValue(d) == (CHOOSE i \in DOMAIN DigitChars : DigitChars[i] = d) - 1

\* int(text) succeeds: text is made of digits.
IsInt(text) == text # <<>> /\ \A i \in DOMAIN text : text[i] \in {DigitChars[j] : j \in DOMAIN DigitChars}

\* int(text) for a text of digits.
RECURSIVE ParseInt(_)
ParseInt(text) ==
    IF text = <<>> THEN 0
    ELSE 10 * ParseInt(SubSeq(text, 1, Len(text) - 1)) + DigitValue(text[Len(text)])

\* response.headers.get('Retry-After', '30')
DefaultRetryAfter == <<"3", "0">>

\* check_job_status, lines 166-191: the dict returned for what session.get
\* gave; an exception of session.get, of response.json() or of int() ends
\* in the handler of line 187.
CheckJobStatus(answer) ==
    IF answer.raised THEN Error
    ELSE IF answer.code = 200
      THEN IF answer.json THEN Completed ELSE Error
    ELSE IF answer.code = 202
      THEN LET retry_after == IF answer.retry_after = NoHeader
                                THEN DefaultRetryAfter ELSE answer.retry_after
           IN  IF IsInt(retry_after) THEN InProgress(ParseInt(retry_after)) ELSE Error
    ELSE Error

\* The characters str.strip() removes (the ASCII ones in use).
Whitespace == {" ", "\t", "\n", "\r"}

RECURSIVE LStrip(_)
LStrip(t) == IF t # <<>> /\ Head(t) \in Whitespace THEN LStrip(Tail(t)) ELSE t

RECURSIVE RStrip(_)
RStrip(t) ==
    IF t # <<>> /\ t[Len(t)] \in Whitespace
      THEN RStrip(SubSeq(t, 1, Len(t) - 1))
      ELSE t

\* str.strip()
Strip(t) == RStrip(LStrip(t))

\* str.startswith(prefix)
StartsWith(t, prefix) ==
    Len(t) >= Len(prefix) /\ SubSeq(t, 1, Len(prefix)) = prefix

\* str.__contains__ / grep -F: pat occurs in line as a contiguous run of
\* characters, compared character by character (case-sensitive).
Contains(line, pat) ==
    \E i \in 1..(Len(line) - Len(pat) + 1) : SubSeq(line, i, i + Len(pat) - 1) = pat

\* The lines grep -F -f selects: those containing at least one pattern, in order.
Selected(lines, pats) ==
    SelectSeq(lines, LAMBDA l : \E p \in pats : Contains(l, p))

\* str.replace(".gz", ""): every ".gz" part of the name is dropped.
OutputName(name) == SelectSeq(name, LAMBDA part : part # ".gz")

\* Path.stem: the name without its last suffix.
Stem(name) == IF Len(name) > 1 THEN SubSeq(name, 1, Len(name) - 1) ELSE name

\* f"patterns_{input_file.stem}.txt"
PatternName(name) == <<"patterns_">> \o Stem(name) \o <<".txt">>

\* Path.glob("*.ndjson.gz")
GlobMatch(name) ==
    /\ Len(name) >= 2
    /\ name[Len(name) - 1] = ".ndjson"
    /\ name[Len(name)] = ".gz"

Max(a, b) == IF a >= b THEN a ELSE b

\* max_workers or max(1, multiprocessing.cpu_count() - 1); threads = 0 stands
\* for an argument that was not given (None), and 0 itself is falsy too.
MaxWorkersOf(threads, cpu) == IF threads # 0 THEN threads ELSE Max(1, cpu - 1)

\* A write of `new` at offset 0 into a file holding `old` (lines of equal
\* length): the new lines replace the first ones, the rest stays.
Overlay(old, new) == new \o SubSeq(old, Len(new) + 1, Len(old))

Range(s) == {s[i] : i \in DOMAIN s}

\* Every enumeration of a finite set without repetition: list(set).
ListsOf(S) == {s \in [1..Cardinality(S) -> S] : Range(s) = S}

\* The names of the temporary directory: outputs and pattern files.
TempNames == {OutputName(n) : n \in Names} \cup {PatternName(n) : n \in Names}

None == <<>>

\* Path.glob("*.ndjson") in temp_dir.
NdjsonMatch(name) == Len(name) >= 2 /\ name[Len(name)] = ".ndjson"

\* The order of str on the name parts in use ("." < "A" < "_" < "n").
PartOrder == <<".gz", ".ndjson", ".txt", "A", "B", "C", "D", "E", "F", "G",
               "patterns_", "notes">>
PartRank(part) == CHOOSE i \in DOMAIN PartOrder : PartOrder[i] = part

\* a < b for two names (Path.__lt__).
RECURSIVE NameLess(_, _)
NameLess(a, b) ==
    IF a = <<>> THEN b # <<>>
    ELSE IF b = <<>> THEN FALSE
    ELSE IF Head(a) = Head(b) THEN NameLess(Tail(a), Tail(b))
    ELSE PartRank(Head(a)) < PartRank(Head(b))

\* sorted(ndjson_files)
RECURSIVE Sorted(_)
Sorted(S) ==
    IF S = {} THEN <<>>
    ELSE LET m == CHOOSE x \in S : \A y \in S \ {x} : NameLess(x, y)
         IN  <<m>> \o Sorted(S \ {m})

\* total_resources after the loop of lines 186-190 over `entries`.
RECURSIVE TotalResources(_)
TotalResources(entries) ==
    IF entries = <<>> THEN 0
    ELSE Head(entries).count + TotalResources(Tail(entries))

\* create_summary, lines 173-193: the text of SUMMARY.txt as its fields: the
\* number of identifiers, the identifiers (all of them are listed when
\* there are at most 5), a line (name, count) for every *.ndjson file of
\* the directory in sorted order, and the line TOTAL.
SummaryOf(dir, ids) ==
    LET files == Sorted({n \in DOMAIN dir : dir[n].exists /\ NdjsonMatch(n)})
        entries == [i \in DOMAIN files |->
                       [name |-> files[i], count |-> Len(dir[files[i]].data)]]
    IN  [exists |-> TRUE, target |-> Cardinality(ids), ids |-> ids,
         entries |-> entries, total |-> TotalResources(entries)]

\* str.replace(old, ""): every occurrence of old, from the left, is removed.
RECURSIVE ReplaceAll(_, _)
ReplaceAll(t, old) ==
    IF Len(t) < Len(old) THEN t
    ELSE IF StartsWith(t, old)
      THEN ReplaceAll(SubSeq(t, Len(old) + 1, Len(t)), old)
      ELSE <<Head(t)>> \o ReplaceAll(Tail(t), old)

\* word in base_name
HasWord(base, word) == \E i \in DOMAIN base : base[i] = word

\* map_filename_to_resource_type, lines 306-334: the rules tried when no
\* prefix of the table matched.
Fallback(base) ==
    IF HasWord(base, "Patient") THEN "Patient"
    ELSE IF HasWord(base, "Condition") THEN "Condition"
    ELSE IF HasWord(base, "Encounter") THEN "Encounter"
    ELSE IF HasWord(base, "Observation") THEN "Observation"
    ELSE IF HasWord(base, "Medication")
      THEN IF HasWord(base, "Administration") THEN "MedicationAdministration"
           ELSE IF HasWord(base, "Dispense") THEN "MedicationDispense"
           ELSE IF HasWord(base, "Request") THEN "MedicationRequest"
           ELSE IF HasWord(base, "Statement") THEN "MedicationStatement"
           ELSE "Medication"
    ELSE IF HasWord(base, "Procedure") THEN "Procedure"
    ELSE IF HasWord(base, "Specimen") THEN "Specimen"
    ELSE IF HasWord(base, "Location") THEN "Location"
    ELSE IF HasWord(base, "Organization") THEN "Organization"
    ELSE "Unknown"

\* SUMMARY.txt before create_summary has written it.
NoSummary == [exists |-> FALSE]

\* A directory that does not exist.
NoDirectory == [exists |-> FALSE]

\* ------------------------------------------------------------------ state

VARIABLES
    mpc,            \* where main() / filter_all_files() stands
    patient_list,   \* the identifier list main() got from its arguments
    patient_ids,    \* SimpleBatchFilter.patient_ids
    max_workers,    \* SimpleBatchFilter.max_workers
    source,         \* the files of fhir_dir, by name
    temp_exists,    \* whether the directory temp_dir exists
    temp,           \* the files of temp_dir, by name
    fhir_files,     \* the files in the list fhir_files of filter_all_files()
    to_submit,      \* the rest of the list that lines 155-158 iterate over
    patterns,       \* the local list patterns of filter_all_files()
    work_queue,     \* the executor's queue of submitted, not yet started tasks
    tpc,            \* per file: where its task stands
    fd_live,        \* per file: its task holds the output open, still linked
    rc,             \* per file: result.returncode of its zgrep run
    result,         \* per file: what its future holds
    yielded,        \* per file: how often as_completed() yielded its future
    total_filtered, \* the local total_filtered of filter_all_files()
    submitted,      \* per file: how many tasks executor.submit created for it
    pat_created,    \* per file: how many pattern files its task created
    ended,          \* per file: the statement that ended its task
    logged,         \* per file: the messages logged about it
    out_created,    \* per file: how often its task opened its output for writing
    missing_at_start, \* per file: its source was gone when its task started
    main_pc,        \* where main() stands once filter_all_files is called
    run_logged,     \* the messages logged about the run as a whole
    summary,        \* what SUMMARY.txt of temp_dir holds
    output_dir,     \* args.output_dir, once main() has read it
    output_path,    \* the directory args.output_dir names
    list_file,      \* the lines of the file --patient-list names
    read_pos,       \* how many of them read_patient_list has read
    filename,       \* map_filename_to_resource_type: its argument
    base_name,      \* map_filename_to_resource_type: its local base_name
    table_pos,      \* the entry of type_mapping the loop of line 301 is at
    resource_type,  \* what map_filename_to_resource_type returned
    map_pc,         \* where map_filename_to_resource_type stands
    wait_pc,        \* where wait_for_completion stands
    max_wait_time,  \* wait_for_completion: its argument, in seconds
    elapsed,        \* time.time() - start_time, in seconds
    status,         \* wait_for_completion: its local status
    polls,          \* how many times check_job_status was called
    wait_result,    \* what wait_for_completion returned
    get_pc,         \* where do_GET stands
    request_path,   \* do_GET: self.path
    path,           \* do_GET: its local path
    response,       \* do_GET: the status code sent (0: none yet)
    body            \* do_GET: the file whose content was sent

vars == <<mpc, patient_list, patient_ids, max_workers, source, temp_exists, temp,
          fhir_files, to_submit, patterns, work_queue, tpc, fd_live, rc, result, yielded,
          total_filtered, submitted, pat_created, ended, logged, out_created,
          missing_at_start, main_pc, run_logged, summary, output_dir, output_path,
          list_file, read_pos, filename, base_name, table_pos, resource_type, map_pc,
          wait_pc, max_wait_time, elapsed, status, polls, wait_result,
          get_pc, request_path, path, response, body>>

\* What the steps of main() and filter_all_files() leave alone, and what the
\* steps of a task leave alone.
mainVars == <<main_pc, run_logged, summary, output_dir, output_path>>
mapVars == <<filename, base_name, table_pos, resource_type, map_pc>>
waitVars == <<wait_pc, max_wait_time, elapsed, status, polls, wait_result>>
getVars == <<get_pc, request_path, path, response, body>>
clientVars == <<waitVars, getVars>>
pureVars == <<list_file, read_pos, mapVars, clientVars>>
runVars == <<patient_list, patient_ids, max_workers, source, temp_exists, fhir_files,
             patterns, mainVars, pureVars>>
poolVars == <<mpc, to_submit, yielded, total_filtered, submitted>>
taskVars == <<temp, work_queue, tpc, fd_live, rc, result, pat_created, ended,
             out_created, missing_at_start>>

\* What the steps of main() after filter_all_files, and the steps of
\* map_filename_to_resource_type, leave alone.
filterVars == <<patient_list, patient_ids, max_workers, source, temp_exists, fhir_files,
                patterns, poolVars, logged, taskVars>>

NoResult == [kind |-> "none", output |-> None, count |-> 0]
Returned(out, n) == [kind |-> "returned", output |-> out, count |-> n]
Raised == [kind |-> "raised", output |-> None, count |-> 0]

\* The source files that may disappear while the run is under way.
Volatile == {NameC}

\* The source files whose task may meet an error of the operating system
\* (open() or subprocess.run raising) or of zgrep (exit status 2).
Flaky == {NameA}

\* The orders in which Path.glob may list the files found.
ScanOrders(found) ==
    IF Cardinality(found) <= MaxPermuted
      THEN ListsOf(found)
      ELSE {CHOOSE s \in ListsOf(found) : TRUE}

\* A task is executing: a worker thread has taken it and it has not ended.
Executing(f) == tpc[f] \notin {"none", "queued", "finished"}

\* The state in which main() is entered, but for its arguments and the
\* directory it works on.
Entered ==
    /\ patient_ids = {}
    /\ temp_exists = FALSE
    /\ temp = [n \in TempNames |-> Absent]
    /\ fhir_files = {}
    /\ to_submit = <<>>
    /\ patterns = <<>>
    /\ work_queue = <<>>
    /\ tpc = [n \in Names |-> "none"]
    /\ fd_live = [n \in Names |-> FALSE]
    /\ rc = [n \in Names |-> -1]
    /\ result = [n \in Names |-> NoResult]
    /\ yielded = [n \in Names |-> 0]
    /\ total_filtered = 0
    /\ submitted = [n \in Names |-> 0]
    /\ pat_created = [n \in Names |-> 0]
    /\ ended = [n \in Names |-> "running"]
    /\ logged = [n \in Names |-> {}]
    /\ out_created = [n \in Names |-> 0]
    /\ missing_at_start = [n \in Names |-> FALSE]
    /\ main_pc = "try"
    /\ run_logged = {}
    /\ summary = NoSummary
    /\ output_dir = "unread"
    /\ output_path = NoDirectory

\* wait_for_completion is not called.
WaitIdle ==
    /\ wait_pc = "idle"
    /\ max_wait_time = 0
    /\ elapsed = 0
    /\ status = NoStatus
    /\ polls = 0
    /\ wait_result = "none"

\* No request is handled.
GetIdle ==
    /\ get_pc = "idle"
    /\ request_path = <<>>
    /\ path = <<>>
    /\ response = 0
    /\ body = None

\* The filter is not run.
FilterIdle ==
    /\ mpc = "idle"
    /\ patient_list = <<>>
    /\ list_file = <<>>
    /\ read_pos = 0
    /\ max_workers = 1
    /\ source = DirEmpty
    /\ Entered

\* map_filename_to_resource_type is not called.
MapIdle ==
    /\ filename = <<>>
    /\ base_name = <<>>
    /\ table_pos = 0
    /\ resource_type = ""
    /\ map_pc = "idle"

\* main() with --patients: the identifiers are its arguments, no list file
\* is read.
Init ==
    /\ mpc = "main"
    /\ patient_list \in IdLists
    /\ list_file = <<>>
    /\ read_pos = 0
    /\ \E threads \in 0..MaxThreads, cpu \in 1..MaxCpu :
           max_workers = MaxWorkersOf(threads, cpu)
    /\ source \in Corpora
    /\ Entered
    /\ WaitIdle
    /\ GetIdle
    /\ MapIdle

\* main() with --patient-list: read_patient_list is about to read the file.
ReadInit ==
    /\ mpc = "read_patient_list"
    /\ patient_list = <<>>
    /\ list_file \in ListFiles
    /\ read_pos = 0
    /\ max_workers = 1
    /\ source = DirEmpty
    /\ Entered
    /\ WaitIdle
    /\ GetIdle
    /\ MapIdle

\* map_filename_to_resource_type is called with a file name.
MapInit ==
    /\ mpc = "idle"
    /\ patient_list = <<>>
    /\ list_file = <<>>
    /\ read_pos = 0
    /\ max_workers = 1
    /\ source = DirEmpty
    /\ Entered
    /\ WaitIdle
    /\ GetIdle
    /\ filename \in FileNames
    /\ base_name = <<>>
    /\ table_pos = 0
    /\ resource_type = ""
    /\ map_pc = "line281"

\* ------------------------------------------ map_filename_to_resource_type

\* Line 281: the extensions are removed from the name.
MapBaseName ==
    /\ map_pc = "line281"
    /\ base_name' = ReplaceAll(ReplaceAll(filename, <<".ndjson", ".gz">>), <<".ndjson">>)
    /\ table_pos' = 1
    /\ map_pc' = "line301"
    /\ UNCHANGED <<filterVars, mainVars, list_file, read_pos, clientVars, filename, resource_type>>

\* Lines 301-303: one pass of the loop over type_mapping, in its order.
MapLookup ==
    /\ map_pc = "line301"
    /\ table_pos <= Len(TypeMapping)
    /\ IF StartsWith(base_name, TypeMapping[table_pos].pattern)
         THEN /\ resource_type' = TypeMapping[table_pos].type
              /\ map_pc' = "returned"
              /\ UNCHANGED table_pos
         ELSE /\ table_pos' = table_pos + 1
              /\ UNCHANGED <<resource_type, map_pc>>
    /\ UNCHANGED <<filterVars, mainVars, list_file, read_pos, clientVars, filename, base_name>>

\* Lines 305-334: no prefix matched.
MapFallback ==
    /\ map_pc = "line301"
    /\ table_pos > Len(TypeMapping)
    /\ resource_type' = Fallback(base_name)
    /\ map_pc' = "returned"
    /\ UNCHANGED <<filterVars, mainVars, list_file, read_pos, clientVars, filename, base_name,
                   table_pos>>

\* wait_for_completion is called: start_time is taken.
WaitInit ==
    /\ FilterIdle
    /\ MapIdle
    /\ GetIdle
    /\ wait_pc = "line208"
    /\ max_wait_time \in 0..MaxWaitTime
    /\ elapsed = 0
    /\ status = NoStatus
    /\ polls = 0
    /\ wait_result = "none"

\* ---------------------------------------------------- wait_for_completion

\* What the steps of wait_for_completion leave alone.
waitFrame == <<filterVars, mainVars, list_file, read_pos, mapVars, getVars,
               max_wait_time>>

\* Line 208, and lines 227-228 when the time is up.
WaitLoop ==
    /\ wait_pc = "line208"
    /\ IF elapsed < max_wait_time
         THEN wait_pc' = "line209" /\ UNCHANGED wait_result
         ELSE wait_pc' = "returned" /\ wait_result' = "False"
    /\ UNCHANGED <<waitFrame, elapsed, status, polls>>

\* Line 209: check_job_status asks the server, which takes some time.
WaitCheckJobStatus ==
    /\ wait_pc = "line209"
    /\ \E answer \in StatusAnswers : status' = CheckJobStatus(answer)
    /\ \E seconds \in 1..MaxPollTime : elapsed' = elapsed + seconds
    /\ polls' = polls + 1
    /\ wait_pc' = "line211"
    /\ UNCHANGED <<waitFrame, wait_result>>

\* Lines 211-215.
WaitCompleted ==
    /\ wait_pc = "line211"
    /\ status.status = "completed"
    /\ wait_pc' = "returned"
    /\ wait_result' = "True"
    /\ UNCHANGED <<waitFrame, elapsed, status, polls>>

\* WaitError that waits and asks again.
WaitErrorRetries ==
    /\ wait_pc = "line211"
    /\ status.status = "error"
    /\ elapsed' = elapsed + 30
    /\ wait_pc' = "line208"
    /\ UNCHANGED <<waitFrame, wait_result, status, polls>>

\* Lines 216-218.
WaitError ==
    /\ wait_pc = "line211"
    /\ status.status = "error"
    /\ wait_pc' = "returned"
    /\ wait_result' = "False"
    /\ UNCHANGED <<waitFrame, elapsed, status, polls>>

\* Lines 219-222: time.sleep(retry_after). (The branch of lines 223-225 is
\* never taken: check_job_status returns one of the three statuses.)
WaitInProgress ==
    /\ wait_pc = "line211"
    /\ status.status = "in-progress"
    /\ elapsed' = elapsed + status.retry_after
    /\ wait_pc' = "line208"
    /\ UNCHANGED <<waitFrame, wait_result, status, polls>>

\* ------------------------------------------------- paths of the server

\* str.lstrip('/')
RECURSIVE LStripSlash(_)
LStripSlash(t) == IF t # <<>> /\ Head(t) = "/" THEN LStripSlash(Tail(t)) ELSE t

\* urllib.parse.unquote: every escape becomes the character it stands for.
Unquote(t) ==
    [i \in DOMAIN t |-> IF t[i] = "%2F" THEN "/" ELSE IF t[i] = "%2E" THEN "." ELSE t[i]]

\* '..' in path
HasDotDot(t) == \E i \in 1..(Len(t) - 1) : t[i] = "." /\ t[i + 1] = "."

\* os.path.join("/app/fhir", path): an absolute path replaces the directory.
JoinServed(t) ==
    IF StartsWith(t, <<"/">>) THEN t ELSE <<"/", "app", "/", "fhir", "/">> \o t

\* The names between the slashes of a path.
RECURSIVE Segments(_, _)
Segments(t, name) ==
    IF t = <<>> THEN <<name>>
    ELSE IF Head(t) = "/" THEN <<name>> \o Segments(Tail(t), <<>>)
    ELSE Segments(Tail(t), Append(name, Head(t)))

\* The node the names lead to from `node`, as the system resolves them: an
\* empty name and "." stay, ".." goes up, and nothing is found through a
\* node that is not a directory.
RECURSIVE Walk(_, _)
Walk(node, names) ==
    IF names = <<>> THEN node
    ELSE IF node \notin Dirs THEN Missing
    ELSE IF Head(names) \in {<<>>, <<".">>} THEN Walk(node, Tail(names))
    ELSE IF Head(names) = <<".", ".">>
      THEN Walk(IF node = <<>> THEN node ELSE SubSeq(node, 1, Len(node) - 1), Tail(names))
    ELSE Walk(Append(node, Head(names)), Tail(names))

\* The node of an absolute path.
NodeOf(full_path) == Walk(<<>>, Segments(full_path, <<>>))

\* A GET request has arrived.
GetInit ==
    /\ FilterIdle
    /\ MapIdle
    /\ WaitIdle
    /\ get_pc = "line47"
    /\ request_path \in RequestPaths
    /\ path = <<>>
    /\ response = 0
    /\ body = None

\* ------------------------------------------------------------------ do_GET

\* What the steps of do_GET leave alone.
getFrame == <<filterVars, mainVars, list_file, read_pos, mapVars, waitVars,
              request_path>>

\* Line 47.
GetDecode ==
    /\ get_pc = "line47"
    /\ path' = Unquote(LStripSlash(request_path))
    /\ get_pc' = "line50"
    /\ UNCHANGED <<getFrame, response, body>>

\* GetSecurityCheck that looks for '..' only.
GetSecurityCheckDotsOnly ==
    /\ get_pc = "line50"
    /\ IF HasDotDot(path)
         THEN response' = 403 /\ get_pc' = "done"
         ELSE get_pc' = "line58" /\ UNCHANGED response
    /\ UNCHANGED <<getFrame, path, body>>

\* Lines 50-52.
GetSecurityCheck ==
    /\ get_pc = "line50"
    /\ IF HasDotDot(path) \/ StartsWith(path, <<"/">>)
         THEN response' = 403 /\ get_pc' = "done"
         ELSE get_pc' = "line58" /\ UNCHANGED response
    /\ UNCHANGED <<getFrame, path, body>>

\* Lines 55-61.
GetExists ==
    /\ get_pc = "line58"
    /\ IF NodeOf(JoinServed(path)) \in Dirs \cup Files
         THEN get_pc' = "line64" /\ UNCHANGED response
         ELSE response' = 404 /\ get_pc' = "done"
    /\ UNCHANGED <<getFrame, path, body>>

\* Lines 64-66.
GetIsFile ==
    /\ get_pc = "line64"
    /\ IF NodeOf(JoinServed(path)) \in Files
         THEN get_pc' = "line68" /\ UNCHANGED response
         ELSE response' = 403 /\ get_pc' = "done"
    /\ UNCHANGED <<getFrame, path, body>>

\* Lines 68-108: the headers and the content of the file are sent, or
\* os.path.getsize raises and the error 500 is sent.
GetSend ==
    /\ get_pc = "line68"
    /\ \/ response' = 200 /\ body' = NodeOf(JoinServed(path))
       \/ response' = 500 /\ UNCHANGED body
    /\ get_pc' = "done"
    /\ UNCHANGED <<getFrame, path>>

\* ------------------------------------------------------ read_patient_list

\* What the steps of read_patient_list leave alone.
readFrame == <<patient_ids, max_workers, source, temp_exists, fhir_files, patterns,
               to_submit, yielded, total_filtered, submitted, logged, taskVars,
               mainVars, list_file, mapVars, clientVars>>

\* ReadLine that does not skip the lines starting with "#".
ReadLineKeepsComments ==
    /\ mpc = "read_patient_list"
    /\ read_pos < Len(list_file)
    /\ read_pos' = read_pos + 1
    /\ LET patient_id == Strip(list_file[read_pos + 1]) IN
         patient_list' = IF patient_id # <<>>
                           THEN Append(patient_list, patient_id)
                           ELSE patient_list
    /\ UNCHANGED <<mpc, readFrame>>

\* Lines 202-205: one pass of the loop over the lines of the file.
ReadLine ==
    /\ mpc = "read_patient_list"
    /\ read_pos < Len(list_file)
    /\ read_pos' = read_pos + 1
    /\ LET patient_id == Strip(list_file[read_pos + 1]) IN
         patient_list' = IF patient_id # <<>> /\ ~StartsWith(patient_id, <<"#">>)
                           THEN Append(patient_list, patient_id)
                           ELSE patient_list
    /\ UNCHANGED <<mpc, readFrame>>

\* Line 206 and main(), lines 243-244: the list is returned to main().
ReadReturn ==
    /\ mpc = "read_patient_list"
    /\ read_pos = Len(list_file)
    /\ mpc' = "main"
    /\ UNCHANGED <<patient_list, read_pos, readFrame>>

\* ------------------------------------------------------------------- main

\* MainStart without the check of lines 248-250.
MainStartNoCheck ==
    /\ mpc = "main"
    /\ mpc' = "filter_all_files"
    /\ patient_ids' = Range(patient_list)
    /\ UNCHANGED <<patient_list, max_workers, source, temp_exists, fhir_files, patterns,
                   to_submit, yielded, total_filtered, submitted, logged, taskVars,
                   main_pc, run_logged, summary, output_dir, output_path,
                   pureVars>>

\* main(), lines 241-256: no identifier ends the run; otherwise the filter
\* is constructed (patient_ids = set(patient_ids)).
MainStart ==
    /\ mpc = "main"
    /\ IF patient_list = <<>>
         THEN /\ mpc' = "no_patient_ids"
              /\ run_logged' = run_logged \cup {"No patient IDs provided"}
              /\ UNCHANGED patient_ids
         ELSE /\ mpc' = "filter_all_files"
              /\ patient_ids' = Range(patient_list)
              /\ UNCHANGED run_logged
    /\ UNCHANGED <<patient_list, max_workers, source, temp_exists, fhir_files, patterns,
                   to_submit, yielded, total_filtered, submitted, logged, taskVars,
                   main_pc, summary, output_dir, output_path, pureVars>>

\* filter_all_files(), lines 135-136: temp_dir is None, so it is created.
CreateTempDirectory ==
    /\ mpc = "filter_all_files"
    /\ temp_exists' = TRUE
    /\ mpc' = "glob"
    /\ UNCHANGED <<patient_list, patient_ids, max_workers, source, fhir_files, patterns,
                   to_submit, yielded, total_filtered, submitted, logged, taskVars,
                   mainVars, pureVars>>

\* Lines 139-150: the directory scan, the early return, the pattern list.
Glob ==
    /\ mpc = "glob"
    /\ LET found == {n \in Names : source[n].exists /\ GlobMatch(n)} IN
         /\ fhir_files' = found
         /\ to_submit' \in ScanOrders(found)
         /\ IF found = {}
              THEN /\ mpc' = "no_files"
                   /\ run_logged' = run_logged \cup {"No NDJSON.gz files found"}
                   /\ UNCHANGED patterns
              ELSE /\ mpc' = "submit"
                   /\ patterns' \in ListsOf(patient_ids)
                   /\ UNCHANGED run_logged
    /\ UNCHANGED <<patient_list, patient_ids, max_workers, source, temp_exists,
                   yielded, total_filtered, submitted, logged, taskVars,
                   main_pc, summary, output_dir, output_path, pureVars>>

\* Lines 155-158: executor.submit, one file after the other in the order of
\* the scan, which is any order.
Submit(f) ==
    /\ mpc = "submit"
    /\ to_submit # <<>>
    /\ f = Head(to_submit)
    /\ to_submit' = Tail(to_submit)
    /\ tpc' = [tpc EXCEPT ![f] = "queued"]
    /\ work_queue' = Append(work_queue, f)
    /\ submitted' = [submitted EXCEPT ![f] = @ + 1]
    /\ UNCHANGED <<runVars, mpc, yielded, total_filtered, temp, fd_live, rc, result,
                   pat_created, ended, logged, out_created, missing_at_start>>

\* The comprehension of lines 155-158 has submitted every file.
SubmitDone ==
    /\ mpc = "submit"
    /\ to_submit = <<>>
    /\ mpc' = "as_completed"
    /\ UNCHANGED <<runVars, to_submit, yielded, total_filtered, submitted, logged,
                   taskVars>>

\* Collect with the count assigned instead of added.
CollectAssigns(f) ==
    /\ mpc = "as_completed"
    /\ tpc[f] = "finished"
    /\ yielded[f] = 0
    /\ yielded' = [yielded EXCEPT ![f] = @ + 1]
    /\ IF result[f].kind = "returned"
         THEN /\ total_filtered' = result[f].count
              /\ UNCHANGED logged
         ELSE /\ logged' = [logged EXCEPT ![f] = @ \cup {"Error processing"}]
              /\ UNCHANGED total_filtered
    /\ UNCHANGED <<runVars, mpc, to_submit, submitted, taskVars>>

\* Lines 161-167: as_completed yields a finished future that it has not
\* yielded yet; its count is added, its exception is logged.
Collect(f) ==
    /\ mpc = "as_completed"
    /\ tpc[f] = "finished"
    /\ yielded[f] = 0
    /\ yielded' = [yielded EXCEPT ![f] = @ + 1]
    /\ IF result[f].kind = "returned"
         THEN /\ total_filtered' = total_filtered + result[f].count
              /\ UNCHANGED logged
         ELSE /\ logged' = [logged EXCEPT ![f] = @ \cup {"Error processing"}]
              /\ UNCHANGED total_filtered
    /\ UNCHANGED <<runVars, mpc, to_submit, submitted, taskVars>>

\* FilterAllReturn that does not wait for every future (and an executor
\* shut down with wait=False).
FilterAllReturnEarly ==
    /\ mpc = "as_completed"
    /\ \E f \in fhir_files : yielded[f] > 0
    /\ mpc' = "returned"
    /\ UNCHANGED <<runVars, to_submit, yielded, total_filtered, submitted, logged,
                   taskVars>>

\* Line 169: as_completed is exhausted when every future was yielded; the
\* executor shuts down and filter_all_files returns.
FilterAllReturn ==
    /\ mpc = "as_completed"
    /\ \A f \in fhir_files : yielded[f] > 0
    /\ mpc' = "returned"
    /\ UNCHANGED <<runVars, to_submit, yielded, total_filtered, submitted, logged,
                   taskVars>>

\* What filter_all_files returns: 0 at line 143, total_filtered at line 169.
FilterAllFilesResult == IF mpc = "no_files" THEN 0 ELSE total_filtered

\* MainFiltered that does not wait for filter_all_files to return.
MainFilteredEarly ==
    /\ main_pc = "try"
    /\ mpc \in {"no_files", "as_completed", "returned"}
    /\ IF FilterAllFilesResult = 0
         THEN /\ main_pc' = "line264"
              /\ run_logged' = run_logged \cup {"No resources found"}
         ELSE /\ main_pc' = "create_summary"
              /\ UNCHANGED run_logged
    /\ UNCHANGED <<filterVars, pureVars, summary, output_dir, output_path>>

\* main(), lines 260-264: filter_all_files has returned; a total of 0 is
\* logged as a warning and ends main().
MainFiltered ==
    /\ main_pc = "try"
    /\ mpc \in {"no_files", "returned"}
    /\ IF FilterAllFilesResult = 0
         THEN /\ main_pc' = "line264"
              /\ run_logged' = run_logged \cup {"No resources found"}
         ELSE /\ main_pc' = "create_summary"
              /\ UNCHANGED run_logged
    /\ UNCHANGED <<filterVars, pureVars, summary, output_dir, output_path>>

\* CreateSummary with the total main() passes as the line TOTAL.
CreateSummaryOfArgument ==
    /\ main_pc = "create_summary"
    /\ summary' = [SummaryOf(temp, patient_ids) EXCEPT !.total = total_filtered]
    /\ run_logged' = run_logged \cup {"Summary written"}
    /\ main_pc' = "copy"
    /\ UNCHANGED <<filterVars, pureVars, output_dir, output_path>>

\* main(), line 267, and create_summary, lines 171-195.
CreateSummary ==
    /\ main_pc = "create_summary"
    /\ summary' = SummaryOf(temp, patient_ids)
    /\ run_logged' = run_logged \cup {"Summary written"}
    /\ main_pc' = "copy"
    /\ UNCHANGED <<filterVars, pureVars, output_dir, output_path>>

\* CopyToOutputDir that moves the files instead of copying them.
MoveToOutputDir ==
    /\ main_pc = "copy"
    /\ \E given \in BOOLEAN :
         IF given
           THEN /\ output_dir' = "given"
                /\ output_path' =
                     [exists |-> TRUE,
                      files |-> [n \in DOMAIN temp |->
                                   IF temp[n].exists /\ NdjsonMatch(n)
                                     THEN temp[n] ELSE Absent],
                      summary |-> summary]
                /\ temp' = [n \in DOMAIN temp |->
                              IF NdjsonMatch(n) THEN Absent ELSE temp[n]]
                /\ summary' = NoSummary
                /\ run_logged' = run_logged \cup {"Filtered files copied to"}
           ELSE /\ output_dir' = "none"
                /\ UNCHANGED <<output_path, temp, summary>>
                /\ run_logged' = run_logged \cup {"Filtered files are in"}
    /\ main_pc' = "finally"
    /\ UNCHANGED <<patient_list, patient_ids, max_workers, source, temp_exists,
                   fhir_files, patterns, poolVars, logged, work_queue, tpc, fd_live, rc,
                   result, pat_created, ended, out_created, missing_at_start, pureVars>>

\* main(), lines 269-289. args.output_dir is read here for the first time:
\* its value, given or not, is drawn here. The files *.ndjson of temp_dir
\* and SUMMARY.txt are copied into the directory, created when missing.
CopyToOutputDir ==
    /\ main_pc = "copy"
    /\ \E given \in BOOLEAN :
         IF given
           THEN /\ output_dir' = "given"
                /\ output_path' =
                     [exists |-> TRUE,
                      files |-> [n \in DOMAIN temp |->
                                   IF temp[n].exists /\ NdjsonMatch(n)
                                     THEN temp[n] ELSE Absent],
                      summary |-> summary]
                /\ run_logged' = run_logged \cup {"Filtered files copied to"}
           ELSE /\ output_dir' = "none"
                /\ UNCHANGED output_path
                /\ run_logged' = run_logged \cup {"Filtered files are in"}
    /\ main_pc' = "finally"
    /\ UNCHANGED <<filterVars, pureVars, summary>>

\* cleanup_temp_directory, lines 47-51: temp_dir and all it holds are removed.
\* main() has no call of it.
CleanupTempDirectory ==
    IF temp_exists
      THEN /\ temp_exists' = FALSE
           /\ temp' = [n \in DOMAIN temp |-> Absent]
           /\ fd_live' = [n \in Names |-> FALSE]
           /\ summary' = NoSummary
      ELSE UNCHANGED <<temp_exists, temp, fd_live, summary>>

\* MainFinally with a call of cleanup_temp_directory.
MainFinallyCleansUp ==
    /\ main_pc \in {"line264", "finally"}
    /\ main_pc' = IF main_pc = "line264" THEN "exit_line264" ELSE "exit_line294"
    /\ run_logged' = run_logged \cup {"Temporary directory preserved at"}
    /\ CleanupTempDirectory
    /\ UNCHANGED <<patient_list, patient_ids, max_workers, source, fhir_files, patterns,
                   poolVars, logged, work_queue, tpc, rc, result, pat_created, ended,
                   out_created, missing_at_start, pureVars, output_dir, output_path>>

\* main(), lines 291-294: the finally clause, after the return of line 264
\* as after line 289, logs where temp_dir is and removes nothing.
MainFinally ==
    /\ main_pc \in {"line264", "finally"}
    /\ main_pc' = IF main_pc = "line264" THEN "exit_line264" ELSE "exit_line294"
    /\ run_logged' = run_logged \cup {"Temporary directory preserved at"}
    /\ UNCHANGED <<filterVars, pureVars, summary, output_dir, output_path>>

\* ------------------------------------------------------------------ tasks

\* The task of f ends at the statement of line `line`: its future holds
\* res, and the locals of the call are gone.
Finish(f, line, res, msgs) ==
    /\ tpc' = [tpc EXCEPT ![f] = "finished"]
    /\ result' = [result EXCEPT ![f] = res]
    /\ ended' = [ended EXCEPT ![f] = line]
    /\ logged' = [logged EXCEPT ![f] = @ \cup msgs]
    /\ rc' = [rc EXCEPT ![f] = -1]

\* filter_single_file, lines 121-131: grep_filter_file returned count at line
\* `line`; the count is logged and (output_file, count) returned.
ReturnCount(f, line, count, msgs) ==
    Finish(f, line, Returned(OutputName(f), count),
           msgs \cup {IF count > 0 THEN "records filtered" ELSE "No matches found"})

\* The task of f goes on at `label`.
Goto(f, label) ==
    /\ tpc' = [tpc EXCEPT ![f] = label]
    /\ UNCHANGED <<result, ended, logged, rc>>

\* Path.unlink of the temporary file p: every descriptor open on it now
\* refers to a file without a name.
Unlink(p) ==
    /\ temp' = [temp EXCEPT ![p] = Absent]
    /\ fd_live' = [g \in Names |-> fd_live[g] /\ OutputName(g) # p]

\* if output_file.exists(): output_file.unlink()
UnlinkIfExists(p) ==
    IF temp[p].exists THEN Unlink(p) ELSE UNCHANGED <<temp, fd_live>>

\* Start with a thread for every submitted task, whatever max_workers is.
StartUnbounded(f) ==
    /\ work_queue # <<>>
    /\ f = Head(work_queue)
    /\ work_queue' = Tail(work_queue)
    /\ Goto(f, "filter_single_file")
    /\ missing_at_start' = [missing_at_start EXCEPT ![f] = ~source[f].exists]
    /\ UNCHANGED <<runVars, poolVars, temp, fd_live, pat_created, out_created>>

\* A worker thread of the executor (there are at most max_workers) takes
\* the oldest queued task and calls filter_single_file.
Start(f) ==
    /\ work_queue # <<>>
    /\ f = Head(work_queue)
    /\ Cardinality({g \in Names : Executing(g)}) < max_workers
    /\ work_queue' = Tail(work_queue)
    /\ Goto(f, "filter_single_file")
    /\ missing_at_start' = [missing_at_start EXCEPT ![f] = ~source[f].exists]
    /\ UNCHANGED <<runVars, poolVars, temp, fd_live, pat_created, out_created>>

\* SingleFileExists without the check of lines 110-112.
SingleFileNoCheck(f) ==
    /\ tpc[f] = "filter_single_file"
    /\ Goto(f, "stat")
    /\ UNCHANGED <<runVars, poolVars, missing_at_start, temp, work_queue, fd_live,
                   pat_created, out_created>>

\* filter_single_file, lines 110-112.
SingleFileExists(f) ==
    /\ tpc[f] = "filter_single_file"
    /\ IF source[f].exists
         THEN Goto(f, "stat")
         ELSE Finish(f, "line112", Returned(None, 0), {"File not found"})
    /\ UNCHANGED <<runVars, poolVars, missing_at_start, temp, work_queue, fd_live,
                   pat_created, out_created>>

\* Lines 114-119: stat() raises when the file is gone.
Stat(f) ==
    /\ tpc[f] = "stat"
    /\ IF source[f].exists
         THEN Goto(f, "grep_filter_file")
         ELSE Finish(f, "line114", Raised, {})
    /\ UNCHANGED <<runVars, poolVars, missing_at_start, temp, work_queue, fd_live,
                   pat_created, out_created>>

\* grep_filter_file, lines 57-59; filter_single_file then returns
\* (output_file, 0).
GrepFileExists(f) ==
    /\ tpc[f] = "grep_filter_file"
    /\ IF source[f].exists
         THEN Goto(f, "write_patterns")
         ELSE ReturnCount(f, "line59", 0, {"File not found"})
    /\ UNCHANGED <<runVars, poolVars, missing_at_start, temp, work_queue, fd_live,
                   pat_created, out_created>>

\* Lines 63-66: the pattern file is written, or open() raises.
WritePatterns(f) ==
    /\ tpc[f] = "write_patterns"
    /\ \/ /\ temp' = [temp EXCEPT ![PatternName(f)] = File(patterns)]
          /\ pat_created' = [pat_created EXCEPT ![f] = @ + 1]
          /\ Goto(f, "open_output")
       \/ /\ f \in Flaky
          /\ Goto(f, "except")
          /\ UNCHANGED <<temp, pat_created>>
    /\ UNCHANGED <<runVars, poolVars, missing_at_start, work_queue, fd_live,
                   out_created>>

\* Line 71: open(output_file, "w") creates or truncates the file, or raises.
OpenOutput(f) ==
    /\ tpc[f] = "open_output"
    /\ \/ /\ temp' = [temp EXCEPT ![OutputName(f)] = File(<<>>)]
          /\ fd_live' = [fd_live EXCEPT ![f] = TRUE]
          /\ out_created' = [out_created EXCEPT ![f] = @ + 1]
          /\ Goto(f, "run")
       \/ /\ f \in Flaky
          /\ Goto(f, "except")
          /\ UNCHANGED <<temp, fd_live, out_created>>
    /\ UNCHANGED <<runVars, poolVars, missing_at_start, work_queue, pat_created>>

\* Lines 72-74: subprocess.run raises (zgrep cannot be started); the with
\* statement closes the output.
RunRaises(f) ==
    /\ tpc[f] = "run"
    /\ f \in Flaky
    /\ fd_live' = [fd_live EXCEPT ![f] = FALSE]
    /\ Goto(f, "except")
    /\ UNCHANGED <<runVars, poolVars, missing_at_start, temp, work_queue, pat_created,
                   out_created>>

\* What zgrep -F -f pattern_file input_file writes and its exit status:
\* every selected line and 0 (some) or 1 (none), or on an error (an
\* unreadable input or pattern file among them) some first selected lines
\* and 2.
ZgrepOutcomes(f) ==
    LET pat == temp[PatternName(f)]
        readable == pat.exists /\ source[f].exists
        sel == IF readable THEN Selected(source[f].data, Range(pat.data)) ELSE <<>>
    IN  (IF readable
           THEN {[out |-> sel, status |-> IF Len(sel) > 0 THEN 0 ELSE 1]}
           ELSE {[out |-> <<>>, status |-> 2]})
        \cup (IF f \in Flaky
                THEN {[out |-> SubSeq(sel, 1, k), status |-> 2] : k \in 0..Len(sel)}
                ELSE {})

\* Lines 72-74: zgrep ends; what it wrote went through the descriptor the
\* task opened, at offset 0.
RunCompletes(f) ==
    /\ tpc[f] = "run"
    /\ \E o \in ZgrepOutcomes(f) :
         /\ temp' = IF fd_live[f]
                      THEN [temp EXCEPT ![OutputName(f)] = File(Overlay(@.data, o.out))]
                      ELSE temp
         /\ rc' = [rc EXCEPT ![f] = o.status]
    /\ fd_live' = [fd_live EXCEPT ![f] = FALSE]
    /\ tpc' = [tpc EXCEPT ![f] = "unlink_patterns"]
    /\ UNCHANGED <<runVars, poolVars, missing_at_start, work_queue, pat_created,
                   out_created, result, ended, logged>>

\* Line 77: pattern_file.unlink(), which raises when the file is gone.
UnlinkPatterns(f) ==
    /\ tpc[f] = "unlink_patterns"
    /\ IF temp[PatternName(f)].exists
         THEN Unlink(PatternName(f)) /\ Goto(f, "returncode")
         ELSE Goto(f, "except") /\ UNCHANGED <<temp, fd_live>>
    /\ UNCHANGED <<runVars, poolVars, missing_at_start, work_queue, pat_created,
                   out_created>>

\* Lines 79-83: status 0 counts the lines of the output; open() raises when
\* the file is gone.
ReturnCodeZero(f) ==
    /\ tpc[f] = "returncode"
    /\ rc[f] = 0
    /\ IF temp[OutputName(f)].exists
         THEN ReturnCount(f, "line83", Len(temp[OutputName(f)].data), {})
         ELSE Goto(f, "except")
    /\ UNCHANGED <<runVars, poolVars, missing_at_start, temp, work_queue, fd_live,
                   pat_created, out_created>>

\* ReturnCodeOther that removes the output only after status 1.
ReturnCodeOtherKeepsPartial(f) ==
    /\ tpc[f] = "returncode"
    /\ rc[f] # 0
    /\ IF rc[f] = 1
         THEN UnlinkIfExists(OutputName(f)) /\ ReturnCount(f, "line88", 0, {})
         ELSE UNCHANGED <<temp, fd_live>> /\ ReturnCount(f, "line93", 0, {"grep failed"})
    /\ UNCHANGED <<runVars, poolVars, missing_at_start, work_queue, pat_created,
                   out_created>>

\* Lines 84-93: status 1 (no match) and every other status remove the output.
ReturnCodeOther(f) ==
    /\ tpc[f] = "returncode"
    /\ rc[f] # 0
    /\ UnlinkIfExists(OutputName(f))
    /\ IF rc[f] = 1
         THEN ReturnCount(f, "line88", 0, {})
         ELSE ReturnCount(f, "line93", 0, {"grep failed"})
    /\ UNCHANGED <<runVars, poolVars, missing_at_start, work_queue, pat_created,
                   out_created>>

\* Lines 100-104: the handler of every exception raised in lines 62-93.
\* (The handler of lines 95-99 is never entered: subprocess.run is called
\* without a timeout and so never raises TimeoutExpired.)
Except(f) ==
    /\ tpc[f] = "except"
    /\ UnlinkIfExists(OutputName(f))
    /\ ReturnCount(f, "line104", 0, {"Error filtering"})
    /\ UNCHANGED <<runVars, poolVars, missing_at_start, work_queue, pat_created,
                   out_created>>

\* ------------------------------------------------------------ environment

\* A source file disappears after the scan found it.
Vanish(f) ==
    /\ f \in Volatile \cap fhir_files
    /\ source[f].exists
    /\ tpc[f] # "finished"
    /\ source' = [source EXCEPT ![f] = Absent]
    /\ UNCHANGED <<patient_list, patient_ids, max_workers, temp_exists, fhir_files,
                   to_submit, patterns, yielded, total_filtered, submitted, mpc,
                   logged, taskVars, mainVars, pureVars>>

\* ---------------------------------------------------------- specification

TaskStep(f) ==
    \/ Start(f)
    \/ SingleFileExists(f)
    \/ Stat(f)
    \/ GrepFileExists(f)
    \/ WritePatterns(f)
    \/ OpenOutput(f)
    \/ RunRaises(f)
    \/ UnlinkPatterns(f)
    \/ ReturnCodeZero(f)
    \/ ReturnCodeOther(f)
    \/ Except(f)

Next ==
    \/ MainStart
    \/ CreateTempDirectory
    \/ Glob
    \/ SubmitDone
    \/ FilterAllReturn
    \/ MainFiltered
    \/ CreateSummary
    \/ CopyToOutputDir
    \/ MainFinally
    \/ \E f \in Names : Submit(f)
    \/ \E f \in Names : Collect(f)
    \/ \E f \in Names : TaskStep(f)
    \/ \E f \in Names : RunCompletes(f)
    \/ \E f \in Names : Vanish(f)

Spec == Init /\ [][Next]_vars

\* Every step is taken as long as one is possible: the threads run, and
\* every zgrep process ends.
FairSpec == Spec /\ WF_vars(Next)

\* The steps of the program itself: neither a zgrep process ending nor the
\* directory changing under it.
ProgramNext ==
    \/ MainStart
    \/ CreateTempDirectory
    \/ Glob
    \/ SubmitDone
    \/ FilterAllReturn
    \/ MainFiltered
    \/ CreateSummary
    \/ CopyToOutputDir
    \/ MainFinally
    \/ \E f \in Names : Submit(f)
    \/ \E f \in Names : Collect(f)
    \/ \E f \in Names : TaskStep(f)

\* The threads run, but a zgrep process need not end by itself.
HangSpec == Spec /\ WF_vars(ProgramNext)

\* main() from read_patient_list to the construction of the filter.
ReadNext ==
    \/ ReadLine
    \/ ReadReturn
    \/ MainStart

ReadSpec == ReadInit /\ [][ReadNext]_vars

\* A call of map_filename_to_resource_type.
MapNext ==
    \/ MapBaseName
    \/ MapLookup
    \/ MapFallback

MapSpec == MapInit /\ [][MapNext]_vars

\* A call of wait_for_completion.
WaitNext ==
    \/ WaitLoop
    \/ WaitCheckJobStatus
    \/ WaitCompleted
    \/ WaitError
    \/ WaitInProgress

WaitSpec == WaitInit /\ [][WaitNext]_vars

\* The call goes on: every request of the status gets its answer, every
\* sleep ends.
WaitFairSpec == WaitSpec /\ WF_vars(WaitNext)

\* One GET request.
GetNext ==
    \/ GetDecode
    \/ GetSecurityCheck
    \/ GetExists
    \/ GetIsFile
    \/ GetSend

GetSpec == GetInit /\ [][GetNext]_vars

\* ----------------------------------------------------------------- claims

Globbed == fhir_files
Finished(f) == tpc[f] = "finished"
OutputOf(f) == temp[OutputName(f)]

\* The lines of the source file f that contain at least one identifier.
MatchingLines(f) == Selected(source[f].data, patient_ids)

RECURSIVE SumCounts(_)
SumCounts(S) ==
    IF S = {} THEN 0
    ELSE LET f == CHOOSE g \in S : TRUE IN result[f].count + SumCounts(S \ {f})

\* C1: when zgrep ended with status 0 on a source with k > 0 matching lines,
\* the task returns at line 83 with count k and the output file holds
\* exactly the k matching lines, in source order.
C1_ExactMatchingLines ==
    [][\A f \in Names :
         (/\ tpc[f] = "returncode"
          /\ tpc'[f] = "finished"
          /\ ended'[f] = "line83"
          /\ source[f].exists
          /\ Len(MatchingLines(f)) > 0)
         => /\ result'[f] = Returned(OutputName(f), Len(MatchingLines(f)))
            /\ temp'[OutputName(f)] = File(MatchingLines(f))]_vars

\* C2: once the task of a source with no matching line has finished, no
\* output file for it exists and its count is 0; every output file of a
\* finished task is non-empty.
C2_NoEmptyArtifact ==
    \A f \in Names :
        Finished(f) =>
          /\ (source[f].exists /\ Len(MatchingLines(f)) = 0)
               => (~OutputOf(f).exists /\ result[f].count = 0)
          /\ OutputOf(f).exists => OutputOf(f).data # <<>>

\* C3: every submitted task ends and is yielded exactly once, and
\* filter_all_files returns, and only after every task has ended.
C3_EveryTaskYieldsOnce ==
    /\ [](\A f \in Names : yielded[f] <= 1)
    /\ [](mpc = "returned" =>
            \A f \in Globbed : Finished(f) /\ yielded[f] = 1 /\ result[f].kind # "none")
    /\ (mpc = "submit") ~> (mpc = "returned")

C3_Witness ==
    /\ mpc = "returned"
    /\ max_workers = 1
    /\ Cardinality(fhir_files) = 5
    /\ \A f \in Globbed : yielded[f] = 1

\* C4: never more than max_workers tasks execute at once, and exactly one
\* task is created for each file found and none for any other.
C4_BoundedWorkers ==
    /\ Cardinality({f \in Names : Executing(f)}) <= max_workers
    /\ \A n \in Names : submitted[n] <= 1
    /\ \A n \in Names : submitted[n] = 1 => n \in Globbed
    /\ mpc \in {"as_completed", "returned"} => \A n \in Globbed : submitted[n] = 1

C4_Witness ==
    /\ max_workers = 2
    /\ Cardinality({f \in Names : Executing(f)}) = 2
    /\ work_queue # <<>>

\* C5: whatever tasks fail, filter_all_files returns with every task ended
\* and yielded once, and the total is the sum of the counts the tasks
\* returned; a task that raised adds nothing and is logged.
C5_FailureIsolation ==
    /\ mpc \in {"main", "no_patient_ids", "filter_all_files", "glob", "no_files",
                "submit", "as_completed", "returned"}
    /\ mpc = "returned" =>
         /\ \A f \in Globbed : Finished(f) /\ yielded[f] = 1
         /\ total_filtered = SumCounts({f \in Globbed : result[f].kind = "returned"})
         /\ \A f \in Globbed :
              result[f].kind = "raised" => "Error processing" \in logged[f]

C5_Witness ==
    /\ mpc = "returned"
    /\ \E f, h \in Globbed :
         /\ result[f].kind = "raised"
         /\ ended[h] = "line83"
         /\ total_filtered = result[h].count
    /\ total_filtered > 0

\* C6: a source that is gone when its task starts gives (None, 0) with the
\* warning "File not found" and no file created, and filter_all_files
\* still returns with every other task ended and yielded.
C6_SourceUnavailable ==
    /\ \A f \in Names :
         (missing_at_start[f] /\ Finished(f)) =>
           /\ result[f] = Returned(None, 0)
           /\ "File not found" \in logged[f]
           /\ pat_created[f] = 0
           /\ out_created[f] = 0
    /\ mpc = "returned" => \A g \in Globbed : Finished(g) /\ yielded[g] = 1

C6_Witness ==
    /\ mpc = "returned"
    /\ \E f, g \in Globbed :
         /\ missing_at_start[f]
         /\ ended[g] = "line83" /\ result[g].count > 0

\* C7: a task creates one pattern file and the file is gone when it ends.
C7_PatternFileRemoved ==
    \A f \in Names :
        /\ pat_created[f] <= 1
        /\ Finished(f) => ~temp[PatternName(f)].exists

\* C8: when zgrep ended with a status other than 0 and 1, the task logs
\* "grep failed" (a task with status 1 does not), returns count 0 with its
\* output file removed, and filter_all_files still returns with every
\* task ended.
C8_EngineFailure ==
    /\ [][\A f \in Names :
            (tpc[f] = "returncode" /\ rc[f] \notin {0, 1} /\ tpc'[f] # "returncode")
            => /\ tpc'[f] = "finished"
               /\ result'[f] = Returned(OutputName(f), 0)
               /\ "grep failed" \in logged'[f]
               /\ ~temp'[OutputName(f)].exists]_vars
    /\ [](\A f \in Names : ended[f] = "line88" => "grep failed" \notin logged[f])
    /\ [](mpc = "returned" => \A g \in Globbed : Finished(g))

C8_Witness ==
    /\ mpc = "returned"
    /\ \E f, g \in Globbed :
         /\ ended[f] = "line93"
         /\ out_created[f] = 1
         /\ ended[g] = "line83"

\* C9: filter_all_files returns even when a zgrep process never ends.
C9_ReturnsDespiteHang == (mpc = "submit") ~> (mpc = "returned")

\* C10: when the scan finds no source file, the run ends with no temporary
\* directory and no task.
C10_NoPartialState ==
    mpc = "no_files" => (~temp_exists /\ \A n \in Names : submitted[n] = 0)

\* C11: main() ends at line 264 with the warning "No resources found" only
\* when the tasks ran and matched nothing, never when the run was given up
\* because the directory held no source file or no identifier was given.
C11_EmptyResultDistinct ==
    main_pc \in {"line264", "exit_line264"} => mpc = "returned"

\* C12: a run without any identifier ends at line 250 with the error "No
\* patient IDs provided", and in that run no temporary directory is
\* created, no directory scanned, no task submitted or started.
C12_InvalidInputBeforeWork ==
    /\ (mpc \notin {"read_patient_list", "main"} /\ Range(patient_list) = {})
         => mpc = "no_patient_ids"
    /\ mpc = "no_patient_ids" =>
         /\ "No patient IDs provided" \in run_logged
         /\ ~temp_exists
         /\ fhir_files = {} /\ to_submit = <<>>
         /\ \A n \in Names : submitted[n] = 0 /\ tpc[n] = "none"
         /\ main_pc = "try" /\ ~summary.exists /\ ~output_path.exists

C12_Witness ==
    /\ mpc = "no_patient_ids"
    /\ patient_list = <<>>
    /\ "No patient IDs provided" \in run_logged

\* A line without the whitespace at its two ends, found as the slice of the
\* line that is preceded and followed by whitespace only and neither
\* starts nor ends with whitespace.
Trimmed(line) ==
    CHOOSE t \in {SubSeq(line, i, j) : i \in 1..(Len(line) + 1), j \in 0..Len(line)} :
        \E i \in 1..(Len(line) + 1), j \in 0..Len(line) :
            /\ t = SubSeq(line, i, j)
            /\ \A k \in 1..Len(line) : (k < i \/ k > j) => line[k] \in Whitespace
            /\ t # <<>> => (t[1] \notin Whitespace /\ t[Len(t)] \notin Whitespace)

\* The trimmed lines of a list file that are neither blank nor comments.
EffectiveIds(file) ==
    {Trimmed(file[i]) : i \in DOMAIN file} \ {t \in {Trimmed(file[i]) : i \in DOMAIN file} :
                                                  t = <<>> \/ t[1] = "#"}

\* C13: the identifiers read from a list file, and the identifier set of
\* the filter built from them, are the distinct trimmed lines of the file
\* that are not blank and do not begin with "#"; the lines P001, blank,
\* "# c" give {P001}, of size 1.
C13_EffectiveIdentifierSet ==
    /\ mpc = "main" => Range(patient_list) = EffectiveIds(list_file)
    /\ mpc = "filter_all_files" =>
         /\ patient_ids = EffectiveIds(list_file)
         /\ list_file = <<P001 \o EOL, EOL, <<"#", " ", "c">> \o EOL>>
              => (patient_ids = {P001} /\ Cardinality(patient_ids) = 1)
    /\ mpc = "no_patient_ids" => EffectiveIds(list_file) = {}

C13_Witness ==
    /\ mpc = "filter_all_files"
    /\ list_file = <<P001 \o EOL, EOL, <<"#", " ", "c">> \o EOL>>
    /\ patient_list = <<P001>>
    /\ patient_ids = {P001}

\* C14: no step removes the temporary directory once it exists: it is
\* there while the tasks run and when main() ends, whether tasks failed,
\* nothing matched or the files were copied out. (No step of main() calls
\* cleanup_temp_directory.)
C14_ArenaPreserved ==
    /\ [][temp_exists => temp_exists']_vars
    /\ [](mpc \in {"glob", "no_files", "submit", "as_completed", "returned"}
            => temp_exists)
    /\ [](\A f \in Names : tpc[f] # "none" => temp_exists)
    /\ [](main_pc # "try" => temp_exists)

C14_Witness ==
    /\ main_pc = "exit_line294"
    /\ temp_exists
    /\ output_dir = "given"
    /\ \E f \in Globbed : ended[f] = "line104"

\* The sum of the counts of the lines of the summary at the positions I.
RECURSIVE SumListed(_)
SumListed(I) ==
    IF I = {} THEN 0
    ELSE LET i == CHOOSE j \in I : TRUE
         IN  summary.entries[i].count + SumListed(I \ {i})

\* C15: the line TOTAL of the summary is the sum of the counts of the
\* per-file lines of the summary.
C15_SummaryTotal ==
    summary.exists => summary.total = SumListed(DOMAIN summary.entries)

C15_Witness ==
    /\ summary.exists
    /\ Len(summary.entries) = 3
    /\ \A i \in DOMAIN summary.entries : summary.entries[i].count > 0
    /\ summary.total = 5

\* The tasks that ended with an error or without a match.
FailedOrEmpty ==
    {f \in Globbed : result[f].kind # "returned" \/ result[f].count = 0}

\* C16: the summary holds, besides the per-file counts and the total, the
\* number of files whose task failed or matched nothing.
C16_FailedCountReported ==
    summary.exists =>
        /\ "failed" \in DOMAIN summary
        /\ summary.failed = Cardinality(FailedOrEmpty)

\* A run in which the directory stayed as it was and no task met an error
\* of the operating system or of zgrep.
Undisturbed ==
    \A f \in Globbed : source[f].exists /\ ended[f] \in {"line83", "line88"}

RECURSIVE SumMatching(_)
SumMatching(S) ==
    IF S = {} THEN 0
    ELSE LET f == CHOOSE g \in S : TRUE
         IN  Len(MatchingLines(f)) + SumMatching(S \ {f})

\* C17: what an undisturbed run leaves behind is fixed by the identifier
\* set and the source files alone, whatever the order in which tasks end
\* and patterns are listed: each count is the number of matching lines of
\* its source, each output holds those lines (no output when there are
\* none), and the total is the sum.
C17_Deterministic ==
    (mpc = "returned" /\ Undisturbed) =>
        /\ \A f \in Globbed :
             /\ result[f] = Returned(OutputName(f), Len(MatchingLines(f)))
             /\ OutputOf(f) = IF Len(MatchingLines(f)) > 0
                                THEN File(MatchingLines(f)) ELSE Absent
        /\ total_filtered = SumMatching(Globbed)

\* The files *.ndjson of the temporary directory.
Artifacts == {n \in DOMAIN temp : temp[n].exists /\ NdjsonMatch(n)}

\* C18: the copy step leaves in the output directory a copy of every
\* *.ndjson file of the temporary directory and of SUMMARY.txt, and leaves
\* the temporary directory, its files and its summary as they were.
C18_CopyOut ==
    /\ [][(main_pc = "copy" /\ main_pc' # "copy" /\ output_dir' = "given") =>
            /\ output_path'.exists
            /\ \A n \in Artifacts : output_path'.files[n] = temp[n]
            /\ summary.exists /\ output_path'.summary = summary
            /\ temp_exists' /\ temp' = temp /\ summary' = summary]_vars
    /\ [](output_dir = "given" =>
            /\ temp_exists /\ summary.exists
            /\ output_path.exists /\ output_path.summary = summary
            /\ \A n \in Artifacts : output_path.files[n] = temp[n])
    /\ [](output_dir # "given" => ~output_path.exists)

C18_Witness ==
    /\ main_pc = "exit_line294"
    /\ output_dir = "given"
    /\ Cardinality(Artifacts) = 3
    /\ \A n \in Artifacts : output_path.files[n] = temp[n]
    /\ output_path.summary.total = 5

\* C19: the output a task returns is named as its source without its last
\* part ".gz"; every other part of the name is kept, an inner ".gz" too.
C19_OnlyTrailingSuffix ==
    \A f \in Names :
        (Finished(f) /\ result[f].kind = "returned" /\ result[f].output # None)
        => /\ f[Len(f)] = ".gz"
           /\ result[f].output = SubSeq(f, 1, Len(f) - 1)

\* The name is a prefix of the table followed by .ndjson or .ndjson.gz.
NamedAfter(i) ==
    filename \in {TypeMapping[i].pattern \o <<".ndjson">>,
                  TypeMapping[i].pattern \o <<".ndjson", ".gz">>}

\* The words of the substring rules of lines 306-332.
RuleWords == {"Patient", "Condition", "Encounter", "Observation", "Medication",
              "Procedure", "Specimen", "Location", "Organization"}

\* C20: a file named after an entry of the table (its prefix, then .ndjson
\* or .ndjson.gz) gets the type of that entry; a name that starts with no
\* prefix of the table and holds no word of the rules gets "Unknown".
C20_TableLabels ==
    map_pc = "returned" =>
        /\ \A i \in DOMAIN TypeMapping :
             NamedAfter(i) => resource_type = TypeMapping[i].type
        /\ ((\A i \in DOMAIN TypeMapping :
                ~StartsWith(filename, TypeMapping[i].pattern))
            /\ (\A w \in RuleWords : \A k \in DOMAIN filename : filename[k] # w))
           => resource_type = "Unknown"

\* C21: a task that counted no matching line returns no output path.
C21_NoArtifactReference ==
    \A f \in Names :
        (Finished(f) /\ result[f].kind = "returned" /\ result[f].count = 0)
        => result[f].output = None

\* C22: two different source files of a run have different output paths
\* and different pattern file paths.
C22_DistinctPaths ==
    \A f, g \in Globbed :
        f # g => /\ OutputName(f) # OutputName(g)
                 /\ PatternName(f) # PatternName(g)

\* C23: when create_summary reads the temporary directory, and ever after,
\* every task has ended, none is queued, and no output is open for
\* writing.
C23_SummaryAfterBarrier ==
    (main_pc = "create_summary" \/ summary.exists) =>
        /\ mpc = "returned"
        /\ work_queue = <<>>
        /\ \A f \in Globbed : Finished(f) /\ yielded[f] = 1
        /\ \A f \in Names : tpc[f] \in {"none", "finished"} /\ ~fd_live[f]

C23_Witness ==
    /\ summary.exists
    /\ max_workers = 2
    /\ \E f, g \in Globbed : ended[f] = "line83" /\ ended[g] = "line104"

\* The names the summary lists.
Listed == {summary.entries[i].name : i \in DOMAIN summary.entries}

\* C24: the line TOTAL of the summary is the total filter_all_files
\* returned, and the files the summary lists are the outputs of the tasks
\* that returned a count above 0, nothing else.
C24_SummaryMatchesTotal ==
    summary.exists =>
        /\ summary.total = total_filtered
        /\ Listed = {OutputName(f) : f \in {g \in Globbed : result[g].kind = "returned"
                                                            /\ result[g].count > 0}}

\* C25: wait_for_completion returns True only after a poll that gave
\* "completed"; after a poll that gave "error" it returns False without
\* another poll; it polls again after "in-progress" only while less than
\* max_wait_time has passed, and then returns False; it always returns.
C25_WaitTerminates ==
    /\ [](wait_result = "True" => (status.status = "completed" /\ polls >= 1))
    /\ [][status'.status = "error" =>
            /\ polls' = IF status.status = "error" THEN polls ELSE polls + 1
            /\ wait_pc' \in {"line211", "returned"}
            /\ wait_pc' = "returned" => wait_result' = "False"]_vars
    /\ [](wait_pc = "line209" => elapsed < max_wait_time)
    /\ []((wait_pc = "returned" /\ status.status \in {"none", "in-progress"})
            => (wait_result = "False" /\ elapsed >= max_wait_time))
    /\ <>(wait_pc = "returned")

C25_Witness ==
    /\ wait_pc = "returned"
    /\ wait_result = "False"
    /\ status.status = "in-progress"
    /\ polls >= 2
    /\ elapsed >= max_wait_time

\* C26: a request whose decoded path holds ".." or begins with "/" is
\* answered 403 and gets no content; content goes with the answer 200
\* only, and is that of a regular file below the directory served.
C26_NoTraversal ==
    /\ body # None => response = 200
    /\ get_pc = "done" =>
         /\ (HasDotDot(path) \/ StartsWith(path, <<"/">>)) => (response = 403 /\ body = None)
         /\ response = 200 =>
              /\ body \in Files
              /\ Len(body) > Len(ServedDir)
              /\ SubSeq(body, 1, Len(ServedDir)) = ServedDir

C26_Witness ==
    /\ get_pc = "done"
    /\ request_path = <<"/", "%2E", ".", "%2F", "a">>
    /\ path = <<".", ".", "/", "a">>
    /\ response = 403
    /\ body = None

====
